---- MODULE Spec2Model ----
(***************************************************************************)
(* Model of gpacalc.py: the registry of course-level multipliers           *)
(* (parse_multipliers), the whitespace-token matcher and the weighting     *)
(* loop (add_multipliers), and the GPA aggregation, rounding, printing and *)
(* saving done by main.                                                    *)
(*                                                                         *)
(* Strings are sequences of one-character strings, so that the regular     *)
(* expression built in add_multipliers and float() in parse_multipliers    *)
(* work on characters.  Floats are exact rationals [n, d] in lowest terms  *)
(* plus the not-a-number value; a missing cell is not-a-number, as in      *)
(* pandas.  The gradebook is the one read_csv(..., index_col = 0) gives:   *)
(* string row labels, numeric or missing cells.                            *)
(***************************************************************************)
EXTENDS Integers, Sequences, FiniteSets, TLC

VARIABLES
    pc,               \* position of main
    multi,            \* args.multi: [given, toks]; given = FALSE is None
    four,             \* args.four
    printg,           \* args.printg
    save,             \* args.save
    sheet,            \* content of the gradebook file as read_csv parses it
    frames,           \* the DataFrame objects that exist, by reference
    grades,           \* main's grades: reference into frames (0: unbound)
    weighted_grades,  \* main's weighted_grades: reference (0: unbound)
    multiplier_dict,  \* main's multiplier_dict: sequence of [tag, val] items
    gpa,              \* main's gpa
    weighted_gpa,     \* main's weighted_gpa
    stdout,           \* what main printed
    appended,         \* rows write_to_sheet appended to the file
    m_pc,             \* matcher harness: "call" or "done"
    m_label,          \* matcher harness: row label
    m_tag,            \* matcher harness: registry key
    m_result          \* matcher harness: "unset", "match", "nomatch", "error"

vars == <<pc, multi, four, printg, save, sheet, frames, grades,
          weighted_grades, multiplier_dict, gpa, weighted_gpa, stdout,
          appended, m_pc, m_label, m_tag, m_result>>

mainVars == <<pc, multi, four, printg, save, sheet, frames, grades,
              weighted_grades, multiplier_dict, gpa, weighted_gpa, stdout,
              appended>>

matchVars == <<m_pc, m_label, m_tag, m_result>>

(***************************************************************************)
(* Bounds of the explored inputs.                                          *)
(***************************************************************************)
MaxTokens == 4
MaxRows == 2
MaxLabelLen == 4
MaxTagLen == 2

(***************************************************************************)
(* Floats.                                                                 *)
(***************************************************************************)
Abs(x) == IF x < 0 THEN -x ELSE x

RECURSIVE GCD(_, _)
GCD(a, b) == IF b = 0 THEN a ELSE GCD(b, a % b)

NaN == [nan |-> TRUE, n |-> 0, d |-> 1]

\* the value a variable has before its assignment
Unset == [nan |-> TRUE, n |-> 0, d |-> 0]

Rat(n, d) ==
    LET g == GCD(Abs(n), d)
    IN  [nan |-> FALSE, n |-> n \div g, d |-> d \div g]

Num(k) == Rat(k, 1)

Mul(x, y) == IF x.nan \/ y.nan THEN NaN ELSE Rat(x.n * y.n, x.d * y.d)

Add(x, y) == IF x.nan \/ y.nan THEN NaN
             ELSE Rat(x.n * y.d + y.n * x.d, x.d * y.d)

DivInt(x, k) == IF x.nan THEN NaN ELSE Rat(x.n, x.d * k)

RECURSIVE SumSkipNa(_)
SumSkipNa(s) ==
    IF s = <<>> THEN Num(0)
    ELSE IF Head(s).nan THEN SumSkipNa(Tail(s))
    ELSE Add(Head(s), SumSkipNa(Tail(s)))

CountNotNa(s) == Cardinality({i \in 1..Len(s) : ~s[i].nan})

\* Series.mean() that counts a missing cell as zero
SeriesMeanZeroFill(s) ==
    IF Len(s) = 0 THEN NaN ELSE DivInt(SumSkipNa(s), Len(s))

\* Series.mean(): skipna = True; not-a-number when nothing is left
SeriesMean(s) ==
    IF CountNotNa(s) = 0 THEN NaN ELSE DivInt(SumSkipNa(s), CountNotNa(s))

\* round(x, 1): to the nearest tenth, a tie to the even tenth; nan stays nan
Round1(x) ==
    IF x.nan THEN NaN
    ELSE LET q == (10 * x.n) \div x.d
             r == 10 * x.n - q * x.d
         IN  IF 2 * r < x.d THEN Rat(q, 10)
             ELSE IF 2 * r > x.d THEN Rat(q + 1, 10)
             ELSE IF q % 2 = 0 THEN Rat(q, 10) ELSE Rat(q + 1, 10)

(***************************************************************************)
(* The regular expression of add_multipliers, line 109:                    *)
(*   ^ PREFIX? label SUFFIX? $     used with Index.str.match,              *)
(* where PREFIX is the group "any characters, then whitespace" and SUFFIX  *)
(* the group "whitespace, then any characters".  str.match is              *)
(* re.match: the match starts at the first character of the row            *)
(* label.  label is a dictionary key and is spliced in unescaped, so it is *)
(* read as a pattern.  The characters the explored keys are made of are    *)
(* letters, digits, '-', ' ', '\n' (all literal in a pattern) and the      *)
(* pattern characters '.', '*', '(' and '|'.                               *)
(***************************************************************************)
IsSpace(c) == c \in {" ", "\n"}

\* an atom of a pattern against one character: '.' is any character but a
\* newline, '\s' a whitespace character, any other atom the character itself
AtomMatches(cls, c, ch) ==
    CASE cls = "any" -> ch # "\n"
      [] cls = "space" -> IsSpace(ch)
      [] OTHER -> ch = c

Lit(c) == [cls |-> IF c = "." THEN "any" ELSE "lit", c |-> c, q |-> "1"]

\* sre_parse fails on the pattern: a '(' that nothing closes, a '*' with
\* nothing to repeat (after '|'), or a '*' after another repeat (after '*',
\* or first in the key, where it follows the '?' of the prefix group)
RegexError(tag) ==
    \E i \in 1..Len(tag) :
        \/ tag[i] = "("
        \/ tag[i] = "*" /\ (i = 1 \/ tag[i - 1] \in {"*", "|", "("})

\* the alternatives of the key, split at '|'
RECURSIVE SplitAlts(_, _)
SplitAlts(tag, cur) ==
    IF tag = <<>> THEN <<cur>>
    ELSE IF Head(tag) = "|" THEN <<cur>> \o SplitAlts(Tail(tag), <<>>)
    ELSE SplitAlts(Tail(tag), Append(cur, Head(tag)))

\* the atoms of one alternative, each with its repeat
RECURSIVE Items(_)
Items(chars) ==
    IF chars = <<>> THEN <<>>
    ELSE IF Len(chars) >= 2 /\ chars[2] = "*"
         THEN <<[Lit(chars[1]) EXCEPT !.q = "*"]>>
              \o Items(SubSeq(chars, 3, Len(chars)))
    ELSE <<Lit(chars[1])>> \o Items(Tail(chars))

\* positions where one item can end when it starts at position p of s
ItemEnds(it, s, p) ==
    LET run == {e \in p..Len(s) :
                   \A k \in (p + 1)..e : AtomMatches(it.cls, it.c, s[k])}
    IN  CASE it.q = "1" -> {e \in run : e = p + 1}
          [] it.q = "+" -> {e \in run : e >= p + 1}
          [] OTHER -> run

\* positions where a sequence of items can end when it starts in From
RECURSIVE Ends(_, _, _)
Ends(its, s, From) ==
    IF its = <<>> THEN From
    ELSE Ends(Tail(its), s,
              UNION {ItemEnds(Head(its), s, p) : p \in From})

\* a group followed by '?'
Optional(its, s, From) == From \cup Ends(its, s, From)

\* $ without MULTILINE: the end, or just before a newline that ends s
Dollar(s, From) ==
    {p \in From : p = Len(s) \/ (p = Len(s) - 1 /\ s[Len(s)] = "\n")}

\* the group before the key: '.' starred, then '\s' one or more times
PrefixGroup == <<[cls |-> "any", c |-> ".", q |-> "*"],
                 [cls |-> "space", c |-> " ", q |-> "+"]>>

\* the group after the key: '\s' one or more times, then '.' starred
SuffixGroup == <<[cls |-> "space", c |-> " ", q |-> "+"],
                 [cls |-> "any", c |-> ".", q |-> "*"]>>

\* re.match of the compiled pattern on the row label s.  A '|' in the key
\* is at the top level of the pattern: the prefix group belongs to the
\* first alternative only, the suffix group and '$' to the last only.
RegexMatch(tag, s) ==
    LET alts == SplitAlts(tag, <<>>)
        n == Len(alts)
        afterPrefix == Optional(PrefixGroup, s, {0})
    IN  IF n = 1
        THEN Dollar(s, Optional(SuffixGroup, s,
                                Ends(Items(alts[1]), s, afterPrefix))) # {}
        ELSE \/ Ends(Items(alts[1]), s, afterPrefix) # {}
             \/ \E k \in 2..(n - 1) : Ends(Items(alts[k]), s, {0}) # {}
             \/ Dollar(s, Optional(SuffixGroup, s,
                                   Ends(Items(alts[n]), s, {0}))) # {}

\* one element of index.str.match(...): "error" when re.compile raises
StrMatch(tag, s) ==
    IF RegexError(tag) THEN "error"
    ELSE IF RegexMatch(tag, s) THEN "match" ELSE "nomatch"

(***************************************************************************)
(* float(x) of parse_multipliers, line 79, on the tokens explored: an      *)
(* optional sign, digits with at most one '.', or 'nan'.                   *)
(***************************************************************************)
Digits == {"0", "1", "2", "3", "4", "5", "6", "7", "8", "9"}

DigitVal(c) ==
    CASE c = "0" -> 0 [] c = "1" -> 1 [] c = "2" -> 2 [] c = "3" -> 3
      [] c = "4" -> 4 [] c = "5" -> 5 [] c = "6" -> 6 [] c = "7" -> 7
      [] c = "8" -> 8 [] OTHER -> 9

Unsigned(tok) ==
    IF tok # <<>> /\ Head(tok) \in {"-", "+"} THEN Tail(tok) ELSE tok

IsNanLiteral(tok) == Unsigned(tok) = <<"n", "a", "n">>

IsDecimalLiteral(tok) ==
    LET b == Unsigned(tok)
    IN  /\ \A i \in 1..Len(b) : b[i] \in Digits \cup {"."}
        /\ \E i \in 1..Len(b) : b[i] \in Digits
        /\ Cardinality({i \in 1..Len(b) : b[i] = "."}) <= 1

\* float(tok) does not raise ValueError
IsFloat(tok) == IsNanLiteral(tok) \/ IsDecimalLiteral(tok)

\* [n, d] of a run of digits and at most one '.', read left to right
RECURSIVE DecimalAcc(_, _, _, _)
DecimalAcc(b, n, d, frac) ==
    IF b = <<>> THEN Rat(n, d)
    ELSE IF Head(b) = "." THEN DecimalAcc(Tail(b), n, d, TRUE)
    ELSE DecimalAcc(Tail(b), 10 * n + DigitVal(Head(b)),
                    IF frac THEN 10 * d ELSE d, frac)

Float(tok) ==
    IF IsNanLiteral(tok) THEN NaN
    ELSE LET v == DecimalAcc(Unsigned(tok), 0, 1, FALSE)
         IN  IF Head(tok) = "-" THEN Rat(-v.n, v.d) ELSE v

(***************************************************************************)
(* Strings of the explored inputs.                                         *)
(***************************************************************************)
AP == <<"A", "P">>
PreAP == <<"P", "r", "e", "-", "A", "P">>
Biology == <<"B", "i", "o", "l", "o", "g", "y">>
Algebra == <<"A", "l", "g", "e", "b", "r", "a">>
APBiology == AP \o <<" ">> \o Biology
PreAPBiology == PreAP \o <<" ">> \o Biology
BiologyAPLab == Biology \o <<" ">> \o AP \o <<" ", "L", "a", "b">>
ADot == <<"A", ".">>
LParen == <<"(">>
OnePointTwo == <<"1", ".", "2">>
MinusOne == <<"-", "1">>
NanToken == <<"n", "a", "n">>

\* line 145
DefaultDict == <<[tag |-> AP, val |-> Rat(12, 10)],
                 [tag |-> PreAP, val |-> Rat(11, 10)]>>

(***************************************************************************)
(* parse_multipliers.  A dict is the sequence of its items in insertion    *)
(* order; a key set again keeps its place and takes the new value.         *)
(***************************************************************************)
DictSet(dict, k, v) ==
    IF \E i \in 1..Len(dict) : dict[i].tag = k
    THEN [i \in 1..Len(dict) |->
             IF dict[i].tag = k THEN [tag |-> k, val |-> v] ELSE dict[i]]
    ELSE Append(dict, [tag |-> k, val |-> v])

RECURSIVE DictZip(_, _, _)
DictZip(labels, multipliers, dict) ==
    IF labels = <<>> \/ multipliers = <<>> THEN dict
    ELSE DictZip(Tail(labels), Tail(multipliers),
                 DictSet(dict, Head(labels), Head(multipliers)))

\* multi_strings[::2] and multi_strings[1::2]
EvenSlice(toks) == [i \in 1..((Len(toks) + 1) \div 2) |-> toks[2 * i - 1]]

OddSlice(toks) == [i \in 1..(Len(toks) \div 2) |-> toks[2 * i]]

\* parse_multipliers that adds the supplied pairs to the default ones
parse_multipliers_merging(multi_strings) ==
    LET labels == EvenSlice(multi_strings)
        strs == OddSlice(multi_strings)
    IN  IF \E i \in 1..Len(strs) : ~IsFloat(strs[i])
        THEN [ok |-> FALSE, dict |-> <<>>]
        ELSE IF Len(strs) # Len(labels)
        THEN [ok |-> FALSE, dict |-> <<>>]
        ELSE [ok |-> TRUE,
              dict |-> DictZip(labels,
                               [i \in 1..Len(strs) |-> Float(strs[i])],
                               DefaultDict)]

\* parse_multipliers without the comparison of the two lengths: zip drops
\* the tag that has no value
parse_multipliers_unchecked(multi_strings) ==
    LET labels == EvenSlice(multi_strings)
        strs == OddSlice(multi_strings)
    IN  IF \E i \in 1..Len(strs) : ~IsFloat(strs[i])
        THEN [ok |-> FALSE, dict |-> <<>>]
        ELSE [ok |-> TRUE,
              dict |-> DictZip(labels,
                               [i \in 1..Len(strs) |-> Float(strs[i])],
                               <<>>)]

\* lines 74-87: [ok, dict]; ok = FALSE is the except branch, which prints
\* the message and calls exit()
parse_multipliers(multi_strings) ==
    LET labels == EvenSlice(multi_strings)
        strs == OddSlice(multi_strings)
    IN  IF \E i \in 1..Len(strs) : ~IsFloat(strs[i])
        THEN [ok |-> FALSE, dict |-> <<>>]
        ELSE IF Len(strs) # Len(labels)
        THEN [ok |-> FALSE, dict |-> <<>>]
        ELSE [ok |-> TRUE,
              dict |-> DictZip(labels,
                               [i \in 1..Len(strs) |-> Float(strs[i])],
                               <<>>)]

(***************************************************************************)
(* DataFrames.  A frame is [index, columns, data]: the row labels, the     *)
(* column labels and one row of cells per row label.  Objects live in      *)
(* frames and variables hold references, so that a copy and an alias       *)
(* differ.                                                                 *)
(***************************************************************************)
NoFrame == [index |-> <<>>, columns |-> <<>>, data |-> <<>>]

\* an assignment in place of a copy: the same object
DataFrameAlias(heap, ref) == [heap |-> heap, ref |-> ref]

\* DataFrame.copy(): a new object with the same content
DataFrameCopy(heap, ref) ==
    [heap |-> Append(heap, heap[ref]), ref |-> Len(heap) + 1]

\* df[mask] *= m: the rows the boolean mask selects are multiplied by m
MultiplyRows(df, mask, m) ==
    [df EXCEPT !.data =
        [i \in 1..Len(df.data) |->
            IF mask[i]
            THEN [j \in 1..Len(df.data[i]) |-> Mul(df.data[i][j], m)]
            ELSE df.data[i]]]

\* lines 104-109: the loop over multiplier_dict.keys() on the frame ref
RECURSIVE WeightLoop(_, _, _)
WeightLoop(heap, ref, items) ==
    IF items = <<>> THEN [ok |-> TRUE, heap |-> heap, ref |-> ref]
    ELSE IF RegexError(Head(items).tag)
    THEN [ok |-> FALSE, heap |-> heap, ref |-> 0]
    ELSE LET df == heap[ref]
             mask == [i \in 1..Len(df.index) |->
                         StrMatch(Head(items).tag, df.index[i]) = "match"]
         IN  WeightLoop([heap EXCEPT
                            ![ref] = MultiplyRows(df, mask, Head(items).val)],
                        ref, Tail(items))

\* lines 102-110: [ok, heap, ref]; ok = FALSE when re.compile raises
add_multipliers(heap, g, dict) ==
    LET c == DataFrameCopy(heap, g)
    IN  WeightLoop(c.heap, c.ref, dict)

\* DataFrame.mean(): the mean of each column, missing cells skipped
DataFrameMean(df) ==
    [j \in 1..Len(df.columns) |->
        SeriesMean([i \in 1..Len(df.data) |-> df.data[i][j]])]

\* df.mean().mean(), lines 155-156
MeanMean(df) == SeriesMean(DataFrameMean(df))

\* lines 159-164 with the division after the rounding
ScaleRoundEarly(x, fourpoint) ==
    IF fourpoint THEN DivInt(Round1(x), 25) ELSE Round1(x)

\* lines 159-164
ScaleRound(x, fourpoint) ==
    IF fourpoint THEN Round1(DivInt(x, 25)) ELSE Round1(x)

(***************************************************************************)
(* The explored inputs.                                                     *)
(***************************************************************************)
RECURSIVE SeqsUpTo(_, _)
SeqsUpTo(S, k) ==
    IF k = 0 THEN {<<>>}
    ELSE LET P == SeqsUpTo(S, k - 1)
         IN  P \cup {Append(q, c) : q \in {r \in P : Len(r) = k - 1}, c \in S}

None == [given |-> FALSE, toks |-> <<>>]

Given(toks) == [given |-> TRUE, toks |-> toks]

\* command-line tokens after -m
Tokens == {AP, Biology, ADot, LParen, OnePointTwo, MinusOne, NanToken}

TokenMultis == {None} \cup {Given(t) : t \in SeqsUpTo(Tokens, MaxTokens)}

SampleMultis == {None, Given(<<>>)}

Cells == {NaN, Num(80), Num(90)}

Labels == {APBiology, Algebra}

ColumnSets == {<<>>, <<"Q1">>, <<"Q1", "Q2">>}

Frame(index, columns, data) ==
    [index |-> index, columns |-> columns, data |-> data]

\* every gradebook of at most MaxRows rows over Labels, ColumnSets and Cells
AllTables ==
    UNION {
        {Frame(ix, cols, d) :
            ix \in [1..r -> Labels],
            d \in [1..r -> [1..Len(cols) -> Cells]]} :
        r \in 0..MaxRows, cols \in ColumnSets}

SampleTables == {
    Frame(<<APBiology, Algebra>>, <<"Q1">>, <<<<Num(90)>>, <<Num(80)>>>>),
    Frame(<<APBiology, Algebra>>, <<"Q1", "Q2">>,
          <<<<Num(90), Num(90)>>, <<Num(80), NaN>>>>),
    Frame(<<APBiology>>, <<"Q1">>, <<<<NaN>>>>),
    Frame(<<>>, <<>>, <<>>) }

(***************************************************************************)
(* main.                                                                   *)
(***************************************************************************)
Line(what, val, frame, dict) ==
    [what |-> what, val |-> val, frame |-> frame, dict |-> dict]

InitMain(multis, tables) ==
    /\ pc = "start"
    /\ multi \in multis
    /\ four \in BOOLEAN
    /\ printg \in BOOLEAN
    /\ save \in BOOLEAN
    /\ sheet \in tables
    /\ frames = <<>>
    /\ grades = 0
    /\ weighted_grades = 0
    /\ multiplier_dict = <<>>
    /\ gpa = Unset
    /\ weighted_gpa = Unset
    /\ stdout = <<>>
    /\ appended = <<>>
    /\ m_pc = "idle"
    /\ m_label = <<>>
    /\ m_tag = <<>>
    /\ m_result = "unset"

\* lines 139-142: arg_parse and open_sheet of a .csv gradebook
Load ==
    /\ pc = "start"
    /\ frames' = <<sheet>>
    /\ grades' = 1
    /\ pc' = "registry"
    /\ UNCHANGED <<multi, four, printg, save, sheet, weighted_grades,
                   multiplier_dict, gpa, weighted_gpa, stdout, appended>>
    /\ UNCHANGED matchVars

\* lines 145-149: the default dictionary, replaced by the parsed one when
\* -m is given; parse_multipliers prints and exits when it fails
Registry ==
    /\ pc = "registry"
    /\ LET r == parse_multipliers(multi.toks)
       IN  IF ~multi.given
           THEN /\ multiplier_dict' = DefaultDict
                /\ pc' = "weight"
                /\ stdout' = stdout
           ELSE IF r.ok
           THEN /\ multiplier_dict' = r.dict
                /\ pc' = "weight"
                /\ stdout' = stdout
           ELSE /\ multiplier_dict' = DefaultDict
                /\ pc' = "exit"
                /\ stdout' = Append(stdout,
                       Line("Error in class labels and multipliers",
                            NaN, NoFrame, <<>>))
    /\ UNCHANGED <<multi, four, printg, save, sheet, frames, grades,
                   weighted_grades, gpa, weighted_gpa, appended>>
    /\ UNCHANGED matchVars

\* line 151: add_multipliers; a re.error is not caught anywhere
Weight ==
    /\ pc = "weight"
    /\ LET r == add_multipliers(frames, grades, multiplier_dict)
       IN  /\ frames' = r.heap
           /\ weighted_grades' = r.ref
           /\ pc' = IF r.ok THEN "mean" ELSE "crash"
    /\ UNCHANGED <<multi, four, printg, save, sheet, grades,
                   multiplier_dict, gpa, weighted_gpa, stdout, appended>>
    /\ UNCHANGED matchVars

\* lines 155-156
Mean ==
    /\ pc = "mean"
    /\ gpa' = MeanMean(frames[grades])
    /\ weighted_gpa' = MeanMean(frames[weighted_grades])
    /\ pc' = "round"
    /\ UNCHANGED <<multi, four, printg, save, sheet, frames, grades,
                   weighted_grades, multiplier_dict, stdout, appended>>
    /\ UNCHANGED matchVars

\* lines 159-164
Scale ==
    /\ pc = "round"
    /\ weighted_gpa' = ScaleRound(weighted_gpa, four)
    /\ gpa' = ScaleRound(gpa, four)
    /\ pc' = "print"
    /\ UNCHANGED <<multi, four, printg, save, sheet, frames, grades,
                   weighted_grades, multiplier_dict, stdout, appended>>
    /\ UNCHANGED matchVars

\* lines 167-174
Report ==
    /\ pc = "print"
    /\ stdout' = stdout
          \o (IF printg
              THEN <<Line("Multiplier assigments", NaN, NoFrame,
                          multiplier_dict),
                     Line("grades", NaN, frames[grades], <<>>),
                     Line("weighted_grades", NaN, frames[weighted_grades],
                          <<>>)>>
              ELSE <<>>)
          \o <<Line("Unweighted GPA", gpa, NoFrame, <<>>),
               Line("Weighted GPA", weighted_gpa, NoFrame, <<>>)>>
    /\ pc' = "save"
    /\ UNCHANGED <<multi, four, printg, save, sheet, frames, grades,
                   weighted_grades, multiplier_dict, gpa, weighted_gpa,
                   appended>>
    /\ UNCHANGED matchVars

\* the two rows of gpa_df, lines 179-181
GpaRows(column, g, wg) ==
    <<[label |-> "Unweighted GPA", column |-> column, val |-> g],
      [label |-> "Weighted GPA", column |-> column, val |-> wg]>>

\* lines 177-183 and write_to_sheet: grades.columns[0] raises IndexError
\* on a gradebook without columns; an error while writing is caught and
\* printed
Save ==
    /\ pc = "save"
    /\ IF ~save
       THEN /\ pc' = "done"
            /\ UNCHANGED <<stdout, appended>>
       ELSE IF frames[grades].columns = <<>>
       THEN /\ pc' = "crash"
            /\ UNCHANGED <<stdout, appended>>
       ELSE \E written \in BOOLEAN :
            /\ pc' = "done"
            /\ appended' =
                  IF written
                  THEN GpaRows(frames[grades].columns[1], gpa, weighted_gpa)
                  ELSE appended
            /\ stdout' = Append(stdout,
                  Line(IF written THEN "Appended GPA's to"
                       ELSE "Error in appending GPA to gradebook",
                       NaN, NoFrame, <<>>))
    /\ UNCHANGED <<multi, four, printg, save, sheet, frames, grades,
                   weighted_grades, multiplier_dict, gpa, weighted_gpa>>
    /\ UNCHANGED matchVars

Next == Load \/ Registry \/ Weight \/ Mean \/ Scale \/ Report \/ Save

\* every -m token sequence, on sample gradebooks
Init == InitMain(TokenMultis, SampleTables)

Spec == Init /\ [][Next]_vars

\* every gradebook, without -m and with an empty -m
InitTables == InitMain(SampleMultis, AllTables)

SpecTables == InitTables /\ [][Next]_vars

(***************************************************************************)
(* The matcher alone: one element of the mask of line 109, for every row   *)
(* label and key over small alphabets and for the labels and keys of the   *)
(* module docstring.                                                       *)
(***************************************************************************)
LabelChars == {"A", " ", "\n", ".", "*"}

TagChars == {"A", " ", "\n", ".", "*", "(", "|"}

ExampleLabels == {APBiology, PreAPBiology, BiologyAPLab, Algebra}

ExampleTags == {AP, PreAP}

InitMatch ==
    /\ m_pc = "call"
    /\ \/ /\ m_label \in SeqsUpTo(LabelChars, MaxLabelLen)
          /\ m_tag \in SeqsUpTo(TagChars, MaxTagLen)
       \/ /\ m_label \in ExampleLabels
          /\ m_tag \in ExampleTags
    /\ m_result = "unset"
    /\ pc = "idle"
    /\ multi = None
    /\ four = FALSE
    /\ printg = FALSE
    /\ save = FALSE
    /\ sheet = NoFrame
    /\ frames = <<>>
    /\ grades = 0
    /\ weighted_grades = 0
    /\ multiplier_dict = <<>>
    /\ gpa = Unset
    /\ weighted_gpa = Unset
    /\ stdout = <<>>
    /\ appended = <<>>

\* line 109 for one row label and one key
Match ==
    /\ m_pc = "call"
    /\ m_result' = StrMatch(m_tag, m_label)
    /\ m_pc' = "done"
    /\ UNCHANGED <<m_label, m_tag>>
    /\ UNCHANGED mainVars

NextMatch == Match

SpecMatch == InitMatch /\ [][NextMatch]_vars

(***************************************************************************)
(* Vocabulary of the properties.                                           *)
(***************************************************************************)
\* T occurs in L as a complete whitespace-delimited token: after the start
\* of L or a whitespace character, and before the end of L or a whitespace
\* character
TokenMatch(L, T) ==
    \E i \in 0..(Len(L) - Len(T)) :
        /\ SubSeq(L, i + 1, i + Len(T)) = T
        /\ i = 0 \/ IsSpace(L[i])
        /\ i + Len(T) = Len(L) \/ IsSpace(L[i + Len(T) + 1])

PatternChars == {".", "*", "(", "|"}

HasPatternChar(T) == \E i \in 1..Len(T) : T[i] \in PatternChars

\* |x - y| <= n / d, for numbers x and y
Within(x, y, n, d) ==
    /\ ~x.nan
    /\ ~y.nan
    /\ Abs(x.n * y.d - y.n * x.d) * d <= n * x.d * y.d

Numeric(s) == SelectSeq(s, LAMBDA c : ~c.nan)

RECURSIVE Total(_)
Total(s) == IF s = <<>> THEN Num(0) ELSE Add(Head(s), Total(Tail(s)))

\* the arithmetic mean of the numeric cells of s, which has one
Average(s) == DivInt(Total(Numeric(s)), Len(Numeric(s)))

Column(df, j) == [i \in 1..Len(df.data) |-> df.data[i][j]]

RECURSIVE Flat(_)
Flat(rows) == IF rows = <<>> THEN <<>> ELSE Head(rows) \o Flat(Tail(rows))

HasNumeric(df) == Numeric(Flat(df.data)) # <<>>

GrandMean(df) == Average(Flat(df.data))

NumericColumns(df) ==
    SelectSeq([j \in 1..Len(df.columns) |-> j],
              LAMBDA j : Numeric(Column(df, j)) # <<>>)

\* the mean, over the columns that have a numeric cell, of the column's
\* arithmetic mean
MeanOfColumnMeans(df) ==
    Average([k \in 1..Len(NumericColumns(df)) |->
                Average(Column(df, NumericColumns(df)[k]))])

EvenColumns(df) ==
    \A j, k \in 1..Len(df.columns) :
        Len(Numeric(Column(df, j))) = Len(Numeric(Column(df, k)))

\* the product of the multipliers of the registry tags that occur in the
\* label as a token; 1 when there is none
RECURSIVE Composite(_, _)
Composite(label, dict) ==
    IF dict = <<>> THEN Num(1)
    ELSE IF TokenMatch(label, Head(dict).tag)
    THEN Mul(Head(dict).val, Composite(label, Tail(dict)))
    ELSE Composite(label, Tail(dict))

ExpectedWeighted(df, dict) ==
    [df EXCEPT !.data =
        [i \in 1..Len(df.data) |->
            [j \in 1..Len(df.data[i]) |->
                Mul(df.data[i][j], Composite(df.index[i], dict))]]]

Reordered(dict, perm) == [i \in 1..Len(dict) |-> dict[perm[i]]]

Reached(S) == pc \in S

AfterRegistry == {"weight", "mean", "round", "print", "save", "done", "crash"}

AfterWeight == {"mean", "round", "print", "save", "done", "crash"}

Reported == {"save", "done"}

GpaLines == {i \in 1..Len(stdout) :
                stdout[i].what \in {"Unweighted GPA", "Weighted GPA"}}

ExampleSheet ==
    Frame(<<APBiology, Algebra>>, <<"Q1">>, <<<<Num(90)>>, <<Num(80)>>>>)

(***************************************************************************)
(* Properties of the matcher (SpecMatch).                                  *)
(***************************************************************************)
\* C1: for every row label and every tag, the matcher selects the row if
\* and only if the tag occurs in the label as a complete
\* whitespace-delimited token; 'Pre-AP Biology' is selected for 'Pre-AP'
\* and not for 'AP', 'AP Biology' and 'Biology AP Lab' are selected for 'AP'.
\* Stated for the tags made of literal characters; C2 is about the others.
C1_TokenMatcher ==
    (m_pc = "done" /\ ~HasPatternChar(m_tag)) =>
        ((m_result = "match") <=> TokenMatch(m_label, m_tag))

\* C2: a tag with pattern characters is treated as a literal string: a
\* label is selected only when the tag's characters occur in it as a token,
\* a label that has the tag as a token is always selected, and no tag makes
\* the matching step fail.
C2_LiteralTag ==
    (m_pc = "done" /\ HasPatternChar(m_tag)) =>
        /\ m_result # "error"
        /\ m_result = "match" => TokenMatch(m_label, m_tag)
        /\ TokenMatch(m_label, m_tag) => m_result = "match"

(***************************************************************************)
(* Properties of main (Spec, SpecTables).                                  *)
(***************************************************************************)
\* C3: add_multipliers returns, for every gradebook and registry, a table
\* with the same labels and columns whose cells are the original cells
\* times the product of the multipliers of the tags that occur in the row
\* label as a token (1 without such a tag, missing cells stay missing), the
\* same for every iteration order of the registry.
C3_CompositeMultiplier ==
    Reached(AfterWeight) =>
        /\ weighted_grades # 0
        /\ frames[weighted_grades]
              = ExpectedWeighted(frames[grades], multiplier_dict)
        /\ \A perm \in Permutations(1..Len(multiplier_dict)) :
              LET r == add_multipliers(<<frames[grades]>>, 1,
                                       Reordered(multiplier_dict, perm))
              IN  r.ok /\ r.heap[r.ref] = frames[weighted_grades]

MeansColumns(df, g) ==
    HasNumeric(df) =>
        /\ g = MeanOfColumnMeans(df)
        /\ EvenColumns(df) => g = GrandMean(df)

RoundedOnce(r, x) ==
    IF x.nan THEN r.nan
    ELSE /\ ~r.nan
         /\ 10 % r.d = 0
         /\ Within(r, x, 1, 20)

Scaled(x) == IF four THEN DivInt(x, 25) ELSE x

PrintedGpa(what, val) ==
    \E i \in 1..Len(stdout) : stdout[i].what = what /\ stdout[i].val = val

\* C5: each reported GPA is the mean, divided by 25 when the four-point
\* flag is set, rounded once to one decimal place as the last step; the
\* four-point value is within one tenth of round(hundred-point value / 25);
\* the docstring gradebook gives 85.0 and 94.0, or 3.4 and 3.8.
C5_RoundedOnce ==
    Reached(Reported) =>
        /\ RoundedOnce(gpa, Scaled(MeanMean(frames[grades])))
        /\ RoundedOnce(weighted_gpa,
                       Scaled(MeanMean(frames[weighted_grades])))
        /\ PrintedGpa("Unweighted GPA", gpa)
        /\ PrintedGpa("Weighted GPA", weighted_gpa)
        /\ (four /\ ~gpa.nan) =>
              Within(gpa, Round1(DivInt(Round1(MeanMean(frames[grades])),
                                        25)), 1, 10)
        /\ (sheet = ExampleSheet /\ ~multi.given) =>
              IF four
              THEN gpa = Rat(34, 10) /\ weighted_gpa = Rat(38, 10)
              ELSE gpa = Num(85) /\ weighted_gpa = Num(94)

\* the docstring gradebook was reported on the four-point scale
C5_Witness ==
    /\ pc = "done"
    /\ four
    /\ sheet = ExampleSheet
    /\ ~multi.given
    /\ PrintedGpa("Unweighted GPA", Rat(34, 10))
    /\ PrintedGpa("Weighted GPA", Rat(38, 10))

OddCount(toks) == Len(toks) % 2 = 1

BadValue(toks) == \E i \in 1..(Len(toks) \div 2) : ~IsFloat(toks[2 * i])

\* C6: with an odd number of tokens, or a value token that is not a
\* number, the run ends in parse_multipliers: no table is weighted, no GPA
\* is computed or reported, and nothing is written to the file.
C6_ConfigurationError ==
    (multi.given /\ (OddCount(multi.toks) \/ BadValue(multi.toks))
       /\ ~Reached({"start", "registry"})) =>
        /\ pc = "exit"
        /\ weighted_grades = 0
        /\ Len(frames) = 1
        /\ gpa = Unset
        /\ weighted_gpa = Unset
        /\ GpaLines = {}
        /\ appended = <<>>

\* a run given a tag without a value, and a run given a value that is not
\* a number, ended in parse_multipliers
C6_Witness ==
    /\ pc = "exit"
    /\ multi.given
    /\ \/ OddCount(multi.toks) /\ ~BadValue(multi.toks)
       \/ ~OddCount(multi.toks) /\ BadValue(multi.toks)

\* C7: a gradebook without a numeric cell makes the aggregation fail: no
\* GPA value is reported and nothing is persisted.
C7_EmptyTableError ==
    ~HasNumeric(sheet) => (GpaLines = {} /\ appended = <<>>)

SuppliedTags == {multi.toks[2 * i - 1] : i \in 1..(Len(multi.toks) \div 2)}

SuppliedPair(item) ==
    \E i \in 1..(Len(multi.toks) \div 2) :
        /\ item.tag = multi.toks[2 * i - 1]
        /\ item.val = Float(multi.toks[2 * i])

DictTags == {multiplier_dict[i].tag : i \in 1..Len(multiplier_dict)}

RegistryFromInput ==
    IF multi.given
    THEN /\ \A i \in 1..Len(multiplier_dict) :
               SuppliedPair(multiplier_dict[i])
         /\ DictTags = SuppliedTags
         /\ Cardinality(DictTags) = Len(multiplier_dict)
    ELSE multiplier_dict = DefaultDict

RowsOf(label) == {i \in 1..Len(sheet.index) : sheet.index[i] = label}

Unweighted(i) == frames[weighted_grades].data[i] = frames[grades].data[i]

RegistryFixed == Reached(AfterRegistry) => multiplier_dict' = multiplier_dict

\* C8 as stated: the registry is the default one without -m and is made of
\* the supplied pairs only with -m; then a row 'AP Biology' is left
\* unweighted unless 'AP' is among the supplied tags; the registry does not
\* change once it is built.  Stated for supplied tags made of literal
\* characters.
C8_SuppliedOnly ==
    /\ [](Reached(AfterRegistry) => RegistryFromInput)
    /\ []((Reached(AfterWeight) /\ weighted_grades # 0 /\ multi.given
             /\ AP \notin SuppliedTags
             /\ \A t \in SuppliedTags : ~HasPatternChar(t))
            => \A i \in RowsOf(APBiology) : Unweighted(i))
    /\ [][RegistryFixed]_vars

Selects(label) ==
    \E i \in 1..Len(multiplier_dict) :
        StrMatch(multiplier_dict[i].tag, label) = "match"

\* C8 amended: the registry is the default one without -m and is made of
\* the supplied pairs only with -m; then a row is left unweighted unless
\* add_multipliers matches one of the supplied tags to its label (for
\* 'AP Biology', the tag 'AP' or another one such as 'Biology'); the
\* registry does not change once it is built.
C8_SuppliedTagsOnly ==
    /\ [](Reached(AfterRegistry) => RegistryFromInput)
    /\ []((Reached(AfterWeight) /\ weighted_grades # 0 /\ multi.given)
            => \A i \in 1..Len(sheet.index) :
                   ~Selects(sheet.index[i]) => Unweighted(i))
    /\ [][RegistryFixed]_vars

\* with -m and without the tag 'AP', the row 'AP Biology' kept its grades
\* in the weighted table
C8_Witness ==
    /\ pc = "done"
    /\ multi.given
    /\ AP \notin SuppliedTags
    /\ RowsOf(APBiology) # {}
    /\ HasNumeric(sheet)
    /\ \A i \in RowsOf(APBiology) : Unweighted(i)

\* C9: add_multipliers leaves the input table as it was and returns
\* another object; the unweighted GPA and the gradebook printed are those
\* of the grades read from the file.
C9_InputUnchanged ==
    /\ grades # 0 => frames[grades] = sheet
    /\ weighted_grades # 0 => weighted_grades # grades
    /\ Reached({"round"}) => gpa = MeanMean(sheet)
    /\ Reached(Reported) =>
          /\ gpa = ScaleRound(MeanMean(sheet), four)
          /\ \A i \in 1..Len(stdout) :
                stdout[i].what = "grades" => stdout[i].frame = sheet

\* a run weighted some grade, and the grades read are as they were
C9_Witness ==
    /\ pc = "done"
    /\ printg
    /\ frames[weighted_grades] # sheet
    /\ frames[grades] = sheet
    /\ gpa # weighted_gpa

\* C10: in a run that reaches the weighting step, every multiplier of the
\* registry is a positive real number.
C10_PositiveMultipliers ==
    Reached(AfterRegistry) =>
        \A i \in 1..Len(multiplier_dict) :
            ~multiplier_dict[i].val.nan /\ multiplier_dict[i].val.n > 0

====
